---- MODULE Spec2Model ----
(***************************************************************************)
(* The file registry of TelegramDrive: the upload handler                  *)
(* (bot/handlers.py), the /download command (bot/commands.py), the         *)
(* FileManager (services/file_manager.py) and the SQLite metadata store    *)
(* (storage/database.py), with the identifier generator                    *)
(* (utils/helpers.py).                                                     *)
(*                                                                         *)
(* Every handler is a coroutine: it runs up to its next await on a         *)
(* collaborator (storage channel, store, side service) and other handlers  *)
(* run in between.  One action is one such stretch.  A store method opens  *)
(* its own connection; what it commits becomes visible at the commit, what *)
(* it leaves uncommitted is rolled back when the connection closes.        *)
(***************************************************************************)
EXTENDS Integers, Sequences, FiniteSets, TLC

\* Python's None (also SQL NULL, and a table row that is not there).
None == << >>

\* The coroutines that may be in flight at once.
Procs == {"p1", "p2"}

\* The user_id of the Telegram users sending updates.
Users == {<<42>>}

\* config.MAX_FILE_SIZE, 5 * 1024 * 1024 * 1024 bytes: sizes are counted in GiB.
MAX_FILE_SIZE == 5

\* config.STORAGE_CHANNEL_ID / message.chat.id of the storage channel.
STORAGE_CHANNEL_ID == -100

\* generate_file_id keeps timestamp[-8:]: the millisecond clock modulo 10^8.
TsModulus == 100000000

\* Millisecond clock readings at which identifiers are generated; the two are
\* 10^8 ms apart and leave the same last 8 digits.
ClockReadings == {12345678, 112345678}

\* random.choices(ascii_uppercase + digits, k=6): 36^6 strings, scaled to two.
RandomParts == {"AAAAAA", "ZZZZZZ"}

\* Cap on the messages posted to the storage channel in one run.
MaxPosts == 2

\* Cap on download_count and total_downloads in one run.
MaxDownloads == 2

\* The file objects of inbound updates: file_name, file_size (GiB), handler kind.
FileObjs ==
    { [file_name |-> "report.pdf", file_size |-> 1, kind |-> "document"],
      [file_name |-> "my:clip?.mp4", file_size |-> MAX_FILE_SIZE, kind |-> "video"],
      [file_name |-> "big.iso", file_size |-> MAX_FILE_SIZE + 1, kind |-> "document"] }

VARIABLES
    files,           \* table files: sequence of rows, index = rowid
    user_sessions,   \* table user_sessions: user_id -> row or None
    channel,         \* messages of the storage channel, index = message_id
    pc,              \* where each coroutine stands
    req,             \* the update a coroutine is handling
    file_id,         \* process_file_upload's file_id / the command's argument
    stored_message,  \* process_file_upload's stored_message
    file_info,       \* download's / delete_file's file_info
    replies,         \* what the handler has told the user so far
    result,          \* FileManager.delete_file's return value
    calls,           \* collaborator calls made by the running invocation
    insert_log,      \* outcomes of the invocation's insert_file calls
    fault,           \* the store engine failed under this invocation
    registered,      \* registrations that completed: what the handler registered
    retired          \* file_ids a completed FileManager.delete_file reported deleted

vars == << files, user_sessions, channel, pc, req, file_id, stored_message,
           file_info, replies, result, calls, insert_log, fault, registered,
           retired >>

locals == << file_id, stored_message, file_info >>
ghosts == << registered, retired >>

--------------------------------------------------------------------------
(* utils/helpers.py *)

\* generate_file_id: last 8 digits of the millisecond clock + 6 random symbols.
generate_file_id(now, random_part) == << now % TsModulus, random_part >>

FileIds == { generate_file_id(n, r) : n \in ClockReadings, r \in RandomParts }

\* An identifier no generator run has issued ("ZZZZZZZZ" typed by a user).
UnknownId == << -1, "ZZZZZZZZ" >>

\* The characters of the file names of FileObjs.
Characters(name) ==
    CASE name = "report.pdf" ->
            << "r", "e", "p", "o", "r", "t", ".", "p", "d", "f" >>
      [] name = "my:clip?.mp4" ->
            << "m", "y", ":", "c", "l", "i", "p", "?", ".", "m", "p", "4" >>
      [] name = "big.iso" -> << "b", "i", "g", ".", "i", "s", "o" >>

\* The character class [<>:"/\\|?*] of clean_filename's re.sub.
InvalidCharacters == { "<", ">", ":", "\"", "/", "\\", "|", "?", "*" }

\* if len(filename) > 255
MaxNameLength == 255

RECURSIVE StripLeft(_)
\* The left half of str.strip('. ').
StripLeft(cs) ==
    IF cs # << >> /\ Head(cs) \in {".", " "} THEN StripLeft(Tail(cs)) ELSE cs

RECURSIVE StripRight(_)
\* The right half of str.strip('. ').
StripRight(cs) ==
    IF cs # << >> /\ cs[Len(cs)] \in {".", " "}
    THEN StripRight(SubSeq(cs, 1, Len(cs) - 1)) ELSE cs

\* The position of the last "." of cs, 0 when it has none (rsplit('.', 1)).
LastDot(cs) ==
    IF \E k \in DOMAIN cs : cs[k] = "."
    THEN CHOOSE k \in DOMAIN cs :
            cs[k] = "." /\ \A j \in DOMAIN cs : cs[j] = "." => j <= k
    ELSE 0

\* cs[:n]
Prefix(cs, n) ==
    IF n >= Len(cs) THEN cs
    ELSE IF n >= 0 THEN SubSeq(cs, 1, n)
    ELSE SubSeq(cs, 1, IF Len(cs) + n > 0 THEN Len(cs) + n ELSE 0)

\* clean_filename on the characters of a name: invalid characters become
\* "_", dots and spaces at both ends go, a name longer than 255 is cut
\* keeping its extension, and an empty result becomes "unnamed_file".
clean_filename(cs) ==
    LET replaced == [k \in DOMAIN cs |->
                        IF cs[k] \in InvalidCharacters THEN "_" ELSE cs[k]]
        stripped == StripRight(StripLeft(replaced))
        dot      == LastDot(stripped)
        name     == IF dot = 0 THEN stripped ELSE SubSeq(stripped, 1, dot - 1)
        ext      == IF dot = 0 THEN << >>
                    ELSE SubSeq(stripped, dot + 1, Len(stripped))
        cut      == IF Len(stripped) > MaxNameLength
                    THEN IF ext # << >>
                         THEN Prefix(name, 250 - Len(ext)) \o << "." >> \o ext
                         ELSE Prefix(name, MaxNameLength)
                    ELSE stripped
    IN  IF cut = << >>
        THEN << "u", "n", "n", "a", "m", "e", "d", "_", "f", "i", "l", "e" >>
        ELSE cut

--------------------------------------------------------------------------
(* storage/database.py *)

\* TEXT affinity of column channel_id: the integer chat id is stored as text.
ToText(n) == [text |-> n]

\* if user_id: neither None nor 0.
Truthy(v) == v # None /\ v # <<0>>

NoSession == None

NewSession == [total_uploads |-> 0, total_downloads |-> 0, storage_used |-> 0]

\* _update_user_stats: INSERT OR IGNORE the row, then add the increments.
\* Both statements run on the caller's connection and are not committed here.
update_user_stats(sessions, user_id, upload_increment, download_increment, storage_increment) ==
    LET row == IF sessions[user_id] = NoSession THEN NewSession
               ELSE sessions[user_id]
    IN  [sessions EXCEPT ![user_id] =
            [total_uploads   |-> row.total_uploads + upload_increment,
             total_downloads |-> row.total_downloads + download_increment,
             storage_used    |-> row.storage_used + storage_increment]]

\* async with aiosqlite.connect(...): leaving the block closes the connection;
\* what was executed after the last commit is rolled back.
CloseConnection(committed, pending) == committed

\* Column file_id declared without UNIQUE.
NoUniqueConstraint(fs, fid) == FALSE

\* A uniqueness that looks at the rows with is_deleted = 0 only.
UniqueAmongActive(fs, fid) ==
    \E i \in DOMAIN fs : fs[i].file_id = fid /\ ~fs[i].is_deleted

\* file_id TEXT UNIQUE NOT NULL: the constraint an INSERT can violate.
UniqueViolation(fs, fid) == \E i \in DOMAIN fs : fs[i].file_id = fid

\* NewRow with the bound parameters of filename and file_type swapped.
NewRowSwapped(fs, fid, filename, file_size, file_type, message_id, channel_id, user_id) ==
    [id |-> Len(fs) + 1, file_id |-> fid, filename |-> file_type,
     file_size |-> file_size, file_type |-> filename,
     message_id |-> message_id, channel_id |-> [text |-> channel_id],
     user_id |-> user_id, download_count |-> 0, google_drive_link |-> None,
     is_deleted |-> FALSE]

\* The row INSERT INTO files creates: the column defaults fill the rest.
NewRow(fs, fid, filename, file_size, file_type, message_id, channel_id, user_id) ==
    [id |-> Len(fs) + 1, file_id |-> fid, filename |-> filename,
     file_size |-> file_size, file_type |-> file_type,
     message_id |-> message_id, channel_id |-> ToText(channel_id),
     user_id |-> user_id, download_count |-> 0, google_drive_link |-> None,
     is_deleted |-> FALSE]

\* insert_file where a failure of the engine strikes after the INSERT was
\* committed: the exception is raised and the row is there.
insert_file_late_failure(fs, sessions, fid, filename, file_size, file_type, message_id, channel_id, user_id, engine_ok) ==
    IF \E i \in DOMAIN fs : fs[i].file_id = fid
    THEN [outcome |-> "IntegrityError", files |-> fs, sessions |-> sessions]
    ELSE [outcome  |-> IF engine_ok THEN "ok" ELSE "OperationalError",
          files    |-> Append(fs,
                         [id |-> Len(fs) + 1, file_id |-> fid,
                          filename |-> filename, file_size |-> file_size,
                          file_type |-> file_type, message_id |-> message_id,
                          channel_id |-> [text |-> channel_id],
                          user_id |-> user_id, download_count |-> 0,
                          google_drive_link |-> None, is_deleted |-> FALSE]),
          sessions |-> sessions]

\* DatabaseManager.insert_file.  The INSERT is committed first; the user's
\* counters are updated afterwards on the same connection and never committed.
\* outcome: "ok", or the exception re-raised to the caller.
insert_file(fs, sessions, fid, filename, file_size, file_type, message_id, channel_id, user_id, engine_ok) ==
    IF ~engine_ok
    THEN [outcome |-> "OperationalError", files |-> fs, sessions |-> sessions]
    ELSE IF UniqueViolation(fs, fid)
    THEN [outcome |-> "IntegrityError", files |-> fs, sessions |-> sessions]
    ELSE LET inserted  == Append(fs, NewRow(fs, fid, filename, file_size,
                                           file_type, message_id, channel_id,
                                           user_id))
             committed == [outcome |-> "ok", files |-> inserted,
                           sessions |-> sessions]
             pending   == [outcome |-> "ok", files |-> inserted,
                           sessions |->
                               IF Truthy(user_id)
                               THEN update_user_stats(sessions, user_id, 1, 0,
                                                      file_size)
                               ELSE sessions]
         IN  CloseConnection(committed, pending)

\* The SELECT without "AND is_deleted = 0".
SelectAny(fs, fid) == { i \in DOMAIN fs : fs[i].file_id = fid }

\* SELECT * FROM files WHERE file_id = ? AND is_deleted = 0, fetchone().
SelectActive(fs, fid) ==
    { i \in DOMAIN fs : fs[i].file_id = fid /\ ~fs[i].is_deleted }

\* DatabaseManager.get_file_by_id: the row as a dict, None when there is no
\* such row and None as well when the engine raised.
get_file_by_id(fs, fid, engine_ok) ==
    IF ~engine_ok THEN None
    ELSE LET hit == SelectActive(fs, fid)
         IN  IF hit = {} THEN None
             ELSE fs[CHOOSE i \in hit : \A j \in hit : i <= j]

\* UPDATE files SET is_deleted = 1 WHERE file_id = ?: the rows it matches.
DeleteMatches(fs, fid) == { i \in DOMAIN fs : fs[i].file_id = fid }

\* A delete_file that removes the rows (DELETE FROM files WHERE file_id = ?).
DatabaseManager_delete_file_hard(fs, fid, engine_ok) ==
    IF ~engine_ok THEN [ret |-> FALSE, files |-> fs]
    ELSE [ret   |-> \E i \in DOMAIN fs : fs[i].file_id = fid,
          files |-> SelectSeq(fs, LAMBDA r : r.file_id # fid)]

\* DatabaseManager.delete_file: rowcount > 0, False when the engine raised.
DatabaseManager_delete_file(fs, fid, engine_ok) ==
    IF ~engine_ok THEN [ret |-> FALSE, files |-> fs]
    ELSE [ret   |-> DeleteMatches(fs, fid) # {},
          files |-> [i \in DOMAIN fs |->
                        IF i \in DeleteMatches(fs, fid)
                        THEN [fs[i] EXCEPT !.is_deleted = TRUE]
                        ELSE fs[i]]]

\* The rowids of the rows WHERE user_id = ? AND is_deleted = 0 selects.
UserRows(fs, user_id) ==
    { i \in DOMAIN fs : fs[i].user_id = user_id /\ ~fs[i].is_deleted }

\* DatabaseManager.get_user_files: the user's rows not marked deleted, latest
\* upload_date first (rows are stamped as they are inserted), cut by LIMIT
\* and OFFSET; the empty list when the engine raised.
get_user_files(fs, user_id, limit, offset, engine_ok) ==
    IF ~engine_ok THEN << >>
    ELSE LET idx    == UserRows(fs, user_id)
             n      == Cardinality(idx)
             sorted == [k \in 1..n |->
                           fs[CHOOSE i \in idx :
                                 Cardinality({j \in idx : j > i}) = k - 1]]
             last   == IF offset + limit < n THEN offset + limit ELSE n
         IN  SubSeq(sorted, offset + 1, last)

RECURSIVE SumFileSize(_, _)
\* SUM(file_size) over the rows with rowid in S.
SumFileSize(fs, S) ==
    IF S = {} THEN 0
    ELSE LET i == CHOOSE x \in S : TRUE
         IN  fs[i].file_size + SumFileSize(fs, S \ {i})

\* What get_file_stats returns for the rows with rowid in S.
FileStats(fs, S) ==
    [total_files |-> Cardinality(S),
     total_size  |-> SumFileSize(fs, S),
     file_types  |-> [t \in { fs[i].file_type : i \in S } |->
                        Cardinality({ i \in S : fs[i].file_type = t })]]

\* get_file_stats with "WHERE is_deleted = 0" left out of its two queries.
get_file_stats_all(fs, engine_ok) ==
    IF ~engine_ok THEN FileStats(fs, {}) ELSE FileStats(fs, DOMAIN fs)

\* DatabaseManager.get_file_stats: COUNT(*), SUM(file_size) and the count
\* per file_type of the rows WHERE is_deleted = 0; zeros when the engine
\* raised.
get_file_stats(fs, engine_ok) ==
    IF ~engine_ok THEN FileStats(fs, {})
    ELSE FileStats(fs, { i \in DOMAIN fs : ~fs[i].is_deleted })

\* Where a statement of _update_user_stats may fail: nowhere, at the INSERT
\* OR IGNORE, or at the UPDATE.
StatsFaults == {"none", "insert", "update"}

\* _update_user_stats as its caller sees it: an exception of either
\* statement is caught and logged there, what ran before it stays in the
\* caller's transaction.
update_user_stats_caught(sessions, user_id, upload_increment, download_increment, storage_increment, stats_fault) ==
    CASE stats_fault = "insert" -> sessions
      [] stats_fault = "update" ->
            IF sessions[user_id] = NoSession
            THEN [sessions EXCEPT ![user_id] = NewSession]
            ELSE sessions
      [] OTHER -> update_user_stats(sessions, user_id, upload_increment,
                                    download_increment, storage_increment)

\* An update_download_count whose UPDATE also writes the caller into user_id
\* (SET download_count = download_count + 1, user_id = ?).
update_download_count_owner(fs, sessions, fid, user_id, engine_ok, stats_fault) ==
    IF ~engine_ok
    THEN [outcome |-> "ok", files |-> fs, sessions |-> sessions]
    ELSE [outcome |-> "ok",
          files    |-> [i \in DOMAIN fs |->
                           IF fs[i].file_id = fid
                           THEN [fs[i] EXCEPT !.download_count = @ + 1,
                                              !.user_id = user_id]
                           ELSE fs[i]],
          sessions |-> sessions]

\* DatabaseManager.update_download_count: UPDATE files ... WHERE file_id = ?,
\* then the user's counters if a user_id was given, then one commit.  An
\* exception of the engine is logged and nothing is committed; the method
\* returns None either way (outcome "ok": it never raises).
update_download_count(fs, sessions, fid, user_id, engine_ok, stats_fault) ==
    IF ~engine_ok
    THEN [outcome |-> "ok", files |-> fs, sessions |-> sessions]
    ELSE [outcome  |-> "ok",
          files    |-> [i \in DOMAIN fs |->
                           IF fs[i].file_id = fid
                           THEN [fs[i] EXCEPT !.download_count = @ + 1]
                           ELSE fs[i]],
          sessions |-> IF Truthy(user_id)
                       THEN update_user_stats_caught(sessions, user_id, 0, 1,
                                                     0, stats_fault)
                       ELSE sessions]

--------------------------------------------------------------------------
(* services/file_manager.py *)

\* A get_file_info that also returns records marked deleted.
get_file_info_with_deleted(fs, fid, engine_ok) ==
    IF ~engine_ok \/ ~\E i \in DOMAIN fs : fs[i].file_id = fid THEN None
    ELSE fs[CHOOSE i \in DOMAIN fs : fs[i].file_id = fid]

\* FileManager.get_file_info.
get_file_info(fs, fid, engine_ok) == get_file_by_id(fs, fid, engine_ok)

\* FileManager.save_file_metadata: insert_file without a user_id.
save_file_metadata(fs, sessions, fid, filename, file_size, file_type, message_id, channel_id, engine_ok) ==
    insert_file(fs, sessions, fid, filename, file_size, file_type, message_id,
                channel_id, None, engine_ok)

--------------------------------------------------------------------------
(* bot/handlers.py *)

\* The size check written with >=.
FileTooLargeOrEqual(file_size) == file_size >= MAX_FILE_SIZE

\* if file_size > MAX_FILE_SIZE
FileTooLarge(file_size) == file_size > MAX_FILE_SIZE

Init ==
    /\ files = << >>
    /\ user_sessions = [u \in Users |-> NoSession]
    /\ channel = << >>
    /\ pc = [p \in Procs |-> "idle"]
    /\ req = [p \in Procs |-> None]
    /\ file_id = [p \in Procs |-> None]
    /\ stored_message = [p \in Procs |-> None]
    /\ file_info = [p \in Procs |-> None]
    /\ replies = [p \in Procs |-> {}]
    /\ result = [p \in Procs |-> FALSE]
    /\ calls = [p \in Procs |-> {}]
    /\ insert_log = [p \in Procs |-> << >>]
    /\ fault = [p \in Procs |-> FALSE]
    /\ registered = {}
    /\ retired = {}

\* What a handler did is taken note of (Return) before another handler
\* finishes: at most one finished handler is on record at a time.
Quiet(p) == \A q \in Procs \ {p} : pc[q] # "done"

\* process_file_upload, lines 34-62: the size check, the processing message
\* and generate_file_id.
UploadStart(p, u, f, now, random_part) ==
    /\ pc[p] = "idle"
    /\ req' = [req EXCEPT ![p] = [op |-> "upload", user |-> u, file |-> f]]
    /\ IF FileTooLarge(f.file_size)
       THEN /\ Quiet(p)
            /\ replies' = [replies EXCEPT ![p] = {"File Too Large"}]
            /\ pc' = [pc EXCEPT ![p] = "done"]
            /\ UNCHANGED << file_id, calls >>
       ELSE /\ replies' = [replies EXCEPT ![p] = {"Processing"}]
            /\ file_id' = [file_id EXCEPT ![p] =
                              generate_file_id(now, random_part)]
            /\ calls' = [calls EXCEPT ![p] = {"generate_file_id"}]
            /\ pc' = [pc EXCEPT ![p] = "store"]
    /\ UNCHANGED << files, user_sessions, channel, stored_message, file_info,
                    result, insert_log, fault,
                    ghosts >>

\* UploadStore where the metadata row is written before the post and stays
\* when the post fails.
UploadStoreRowFirst(p, sent) ==
    /\ pc[p] = "store"
    /\ ~UniqueViolation(files, file_id[p])
    /\ files' = Append(files,
                       NewRow(files, file_id[p], req[p].file.file_name,
                              req[p].file.file_size, req[p].file.kind,
                              Len(channel) + 1, STORAGE_CHANNEL_ID, None))
    /\ IF sent
       THEN /\ Len(channel) < MaxPosts
            /\ channel' = Append(channel, [caption_id |-> file_id[p]])
            /\ calls' = [calls EXCEPT ![p] = @ \cup {"store_file_in_channel"}]
            /\ pc' = [pc EXCEPT ![p] = "side"]
            /\ registered' = registered \cup
                   {[file_id |-> file_id[p],
                     filename |-> req[p].file.file_name,
                     file_size |-> req[p].file.file_size,
                     file_type |-> req[p].file.kind, user |-> req[p].user]}
            /\ UNCHANGED replies
       ELSE /\ Quiet(p)
            /\ calls' = [calls EXCEPT ![p] = @ \cup {"RelayUnavailable"}]
            /\ replies' = [replies EXCEPT ![p] = @ \cup {"Upload Failed"}]
            /\ pc' = [pc EXCEPT ![p] = "done"]
            /\ UNCHANGED << channel, registered >>
    /\ UNCHANGED << user_sessions, req, locals, result, insert_log, fault,
                    retired >>

\* process_file_upload, lines 64-67: FileManager.store_file_in_channel posts
\* the file with its caption, or raises (then lines 125-130).
UploadStore(p, sent) ==
    /\ pc[p] = "store"
    /\ IF sent
       THEN /\ Len(channel) < MaxPosts
            /\ channel' = Append(channel, [caption_id |-> file_id[p]])
            /\ stored_message' = [stored_message EXCEPT ![p] =
                                     [message_id |-> Len(channel) + 1,
                                      chat_id |-> STORAGE_CHANNEL_ID]]
            /\ calls' = [calls EXCEPT ![p] = @ \cup {"store_file_in_channel"}]
            /\ pc' = [pc EXCEPT ![p] = "save"]
            /\ UNCHANGED replies
       ELSE /\ Quiet(p)
            /\ calls' = [calls EXCEPT ![p] = @ \cup {"RelayUnavailable"}]
            /\ replies' = [replies EXCEPT ![p] = @ \cup {"Upload Failed"}]
            /\ pc' = [pc EXCEPT ![p] = "done"]
            /\ UNCHANGED << channel, stored_message >>
    /\ UNCHANGED << files, user_sessions, req, file_id, file_info, result, insert_log, fault, ghosts >>

\* process_file_upload, lines 69-73: FileManager.save_file_metadata; an
\* exception of insert_file is re-raised up to lines 125-130.
UploadSave(p, engine_ok) ==
    /\ pc[p] = "save"
    /\ LET f == req[p].file
           r == save_file_metadata(files, user_sessions, file_id[p],
                                   f.file_name, f.file_size, f.kind,
                                   stored_message[p].message_id,
                                   stored_message[p].chat_id, engine_ok)
       IN  /\ files' = r.files
           /\ user_sessions' = r.sessions
           /\ insert_log' = [insert_log EXCEPT ![p] = Append(@, r.outcome)]
           /\ calls' = [calls EXCEPT ![p] = @ \cup {"insert_file"}]
           /\ fault' = [fault EXCEPT ![p] = @ \/ ~engine_ok]
           /\ IF r.outcome = "ok"
              THEN /\ pc' = [pc EXCEPT ![p] = "side"]
                   /\ registered' = registered \cup
                          {[file_id |-> file_id[p], filename |-> f.file_name,
                            file_size |-> f.file_size, file_type |-> f.kind,
                            user |-> req[p].user]}
                   /\ UNCHANGED replies
              ELSE /\ Quiet(p)
                   /\ pc' = [pc EXCEPT ![p] = "done"]
                   /\ replies' = [replies EXCEPT ![p] = @ \cup {"Upload Failed"}]
                   /\ UNCHANGED registered
    /\ UNCHANGED << channel, req, locals, result, retired >>

\* What a side service does when asked: it is not configured, its call
\* fails (an exception), it answers with nothing, or it yields a value.
SideOutcomes == {"unconfigured", "failed", "empty", "value"}

\* What GoogleDriveManager can do: initialize_service finds no credentials
\* (_get_default_credentials returns None), so a configured upload_file
\* returns None before it reaches the Drive API.
DriveOutcomes == {"unconfigured", "failed", "empty"}

\* GoogleDriveManager.upload_file: ret is the link, external says whether
\* the Drive API was called.
upload_file(outcome) ==
    [ret      |-> IF outcome = "value" THEN [link |-> "webViewLink"] ELSE None,
     external |-> outcome = "value"]

\* google_drive_link after lines 75-82: None unless is_configured() and
\* upload_file returned a link; an exception is caught.
google_drive_link(outcome) ==
    IF outcome = "unconfigured" THEN None ELSE upload_file(outcome).ret

\* analyze_file that goes to the API without asking is_configured().
analyze_file_unguarded(file_type, outcome) ==
    [ret |-> [text |-> "analysis"], external |-> TRUE]

\* GeminiAI.analyze_file: None without a client; otherwise _analyze_image /
\* _analyze_document ask the API and return its text, "Could not analyze
\* ..." for an empty answer and "Failed to analyze ..." when the call raised.
analyze_file(file_type, outcome) ==
    IF outcome = "unconfigured"
    THEN [ret |-> None, external |-> FALSE]
    ELSE [ret |-> [text |-> CASE outcome = "failed" -> "Failed to analyze"
                              [] outcome = "empty"  -> "Could not analyze"
                              [] OTHER              -> "analysis"],
          external |-> TRUE]

\* URLShortener.shorten_url: None when unconfigured (no request is made),
\* None when the request fails or carries no URL, else the short URL.
shorten_url(outcome) ==
    [ret      |-> IF outcome = "value" THEN [url |-> "short_url"] ELSE None,
     external |-> outcome # "unconfigured"]

\* Whether lines 84-89 call analyze_file.
Analysed(file_type) == file_type \in {"photo", "document"}

\* ai_analysis after lines 84-91: analyze_file's return for a photo or a
\* document, None otherwise.
ai_analysis(file_type, outcome) ==
    IF Analysed(file_type) THEN analyze_file(file_type, outcome).ret ELSE None

\* success_message, lines 93-114.
success_message(link, analysis) ==
    {"File Uploaded Successfully"}
    \cup (IF link # None THEN {"Google Drive link"} ELSE {})
    \cup (IF analysis # None THEN {"AI Analysis", analysis.text} ELSE {})

\* The collaborator calls of lines 75-123 and how they ended.
SideCalls(kind, drive, ai, edited, forwarded) ==
    {"side_services"}
    \cup (IF drive = "unconfigured" THEN {"DriveUnconfigured"}
          ELSE {"upload_file"})
    \cup (IF drive # "unconfigured" /\ upload_file(drive).ret = None
          THEN {"DriveFailed"} ELSE {})
    \cup (IF upload_file(drive).external /\ drive # "unconfigured"
          THEN {"DriveApi"} ELSE {})
    \cup (IF Analysed(kind) THEN {"analyze_file"} ELSE {})
    \cup (IF Analysed(kind) /\ ai = "unconfigured"
          THEN {"AiUnconfigured"} ELSE {})
    \cup (IF Analysed(kind) /\ ai \in {"failed", "empty"}
          THEN {"AnalysisFailed"} ELSE {})
    \cup (IF Analysed(kind) /\ analyze_file(kind, ai).external
          THEN {"GeminiApi"} ELSE {})
    \cup (IF ~edited THEN {"EditFailed"}
          ELSE IF ~forwarded THEN {"ForwardFailed"} ELSE {})

\* process_file_upload, lines 75-130: Drive upload, AI analysis, then the
\* processing message is edited into the success message and the original
\* message is forwarded; if either of the last two raises, the handler
\* replies "Upload Failed".
UploadFinish(p, drive, ai, edited, forwarded) ==
    /\ pc[p] = "side"
    /\ Quiet(p)
    /\ LET kind == req[p].file.kind
           msg  == success_message(google_drive_link(drive),
                                   ai_analysis(kind, ai))
       IN  /\ calls' = [calls EXCEPT ![p] =
                 @ \cup SideCalls(kind, drive, ai, edited, forwarded)]
           /\ replies' = [replies EXCEPT ![p] =
                 IF ~edited THEN @ \cup {"Upload Failed"}
                 ELSE IF ~forwarded THEN msg \cup {"Upload Failed"}
                 ELSE msg]
    /\ pc' = [pc EXCEPT ![p] = "done"]
    /\ UNCHANGED << files, user_sessions, channel, req, locals, result,
                    insert_log, fault, ghosts >>

--------------------------------------------------------------------------
(* bot/commands.py *)

\* download, lines 89-113: without an argument the usage is shown; otherwise
\* FileManager.get_file_info looks the argument up.
Download(p, u, arg, engine_ok) ==
    /\ pc[p] = "idle"
    /\ req' = [req EXCEPT ![p] = [op |-> "download", user |-> u]]
    /\ file_id' = [file_id EXCEPT ![p] = arg]
    /\ IF arg = None
       THEN /\ Quiet(p)
            /\ engine_ok
            /\ replies' = [replies EXCEPT ![p] = {"Missing File ID"}]
            /\ pc' = [pc EXCEPT ![p] = "done"]
            /\ UNCHANGED << file_info, fault, calls >>
       ELSE LET info == get_file_info(files, arg, engine_ok)
            IN  /\ file_info' = [file_info EXCEPT ![p] = info]
                /\ fault' = [fault EXCEPT ![p] = ~engine_ok]
                /\ calls' = [calls EXCEPT ![p] = {"get_file_info"}]
                /\ IF info = None
                   THEN /\ Quiet(p)
                        /\ replies' = [replies EXCEPT ![p] =
                                           {"File Not Found"}]
                        /\ pc' = [pc EXCEPT ![p] = "done"]
                   ELSE /\ replies' = [replies EXCEPT ![p] = {}]
                        /\ pc' = [pc EXCEPT ![p] = "forward"]
    /\ UNCHANGED << files, user_sessions, channel, stored_message, result,
                    insert_log, ghosts >>

\* The message forward_message(from_chat_id, message_id) finds in the channel.
ChannelMessage(from_chat_id, message_id) ==
    IF from_chat_id = ToText(STORAGE_CHANNEL_ID) /\ message_id \in DOMAIN channel
    THEN channel[message_id] ELSE None

\* download, lines 115-134: the stored message is forwarded and the user is
\* told; nothing else is called.  A forward that raises is answered with
\* "Download Failed".
DownloadForward(p, delivered) ==
    /\ pc[p] = "forward"
    /\ Quiet(p)
    /\ LET info == file_info[p]
           msg == ChannelMessage(info.channel_id, info.message_id)
       IN  IF delivered /\ msg # None
           THEN /\ replies' = [replies EXCEPT ![p] = {"File Retrieved"}]
                /\ calls' = [calls EXCEPT ![p] = @ \cup {"forward_message"}]
           ELSE /\ replies' = [replies EXCEPT ![p] = {"Download Failed"}]
                /\ calls' = [calls EXCEPT ![p] = @ \cup {"DeliveryFailed"}]
    /\ pc' = [pc EXCEPT ![p] = "done"]
    /\ UNCHANGED << files, user_sessions, channel, req, locals, result,
                    insert_log, fault, ghosts >>

\* commands.shorten_url, lines 136-165: without an argument the usage is
\* shown; otherwise URLShortener.shorten_url is awaited and its return is
\* put into the "URL Shortened Successfully" reply, whatever it is.  If
\* sending that reply raises, the handler replies "URL Shortening Failed".
Short(p, u, url_given, outcome, replied) ==
    /\ pc[p] = "idle"
    /\ Quiet(p)
    /\ req' = [req EXCEPT ![p] = [op |-> "short", user |-> u]]
    /\ IF ~url_given
       THEN /\ replies' = [replies EXCEPT ![p] = {"Missing URL"}]
            /\ calls' = [calls EXCEPT ![p] = {}]
       ELSE LET short_url == shorten_url(outcome).ret
            IN  /\ calls' = [calls EXCEPT ![p] =
                      {"shorten_url"}
                      \cup (IF short_url = None THEN {"NoShortUrl"} ELSE {})
                      \cup (IF ~replied THEN {"ReplyFailed"} ELSE {})]
                /\ replies' = [replies EXCEPT ![p] =
                      IF replied
                      THEN {"URL Shortened Successfully",
                            IF short_url = None THEN "Shortened: None"
                            ELSE "Shortened: short_url"}
                      ELSE {"URL Shortening Failed"}]
    /\ pc' = [pc EXCEPT ![p] = "done"]
    /\ UNCHANGED << files, user_sessions, channel, locals, result,
                    insert_log, fault, ghosts >>

--------------------------------------------------------------------------
(* services/file_manager.py: FileManager.delete_file *)

\* FileManager.delete_file, lines 123-129: the lookup; False when it finds
\* nothing.
Retire(p, fid, engine_ok) ==
    /\ pc[p] = "idle"
    /\ req' = [req EXCEPT ![p] =
                  [op |-> "retire",
                   existing |-> (\E g \in registered : g.file_id = fid)
                                /\ fid \notin retired,
                   after_retire |-> fid \in retired]]
    /\ file_id' = [file_id EXCEPT ![p] = fid]
    /\ fault' = [fault EXCEPT ![p] = ~engine_ok]
    /\ calls' = [calls EXCEPT ![p] = {"get_file_info"}]
    /\ LET info == get_file_info(files, fid, engine_ok)
       IN  /\ file_info' = [file_info EXCEPT ![p] = info]
           /\ IF info = None
              THEN /\ Quiet(p)
                   /\ result' = [result EXCEPT ![p] = FALSE]
                   /\ pc' = [pc EXCEPT ![p] = "done"]
              ELSE /\ pc' = [pc EXCEPT ![p] = "delete"]
                   /\ UNCHANGED result
    /\ UNCHANGED << files, user_sessions, channel, stored_message, replies,
                    insert_log, ghosts >>

\* FileManager.delete_file, lines 131-138: DatabaseManager.delete_file, whose
\* return value is dropped, then return True.
RetireDelete(p, engine_ok) ==
    /\ pc[p] = "delete"
    /\ Quiet(p)
    /\ LET r == DatabaseManager_delete_file(files, file_id[p], engine_ok)
       IN  files' = r.files
    /\ result' = [result EXCEPT ![p] = TRUE]
    /\ fault' = [fault EXCEPT ![p] = @ \/ ~engine_ok]
    /\ calls' = [calls EXCEPT ![p] = @ \cup {"db.delete_file"}]
    /\ retired' = IF fault'[p] THEN retired ELSE retired \cup {file_id[p]}
    /\ pc' = [pc EXCEPT ![p] = "done"]
    /\ UNCHANGED << user_sessions, channel, req, locals, replies, insert_log,
                    registered >>

\* The handler has returned; the coroutine slot takes the next update.
Return(p) ==
    /\ pc[p] = "done"
    /\ pc' = [pc EXCEPT ![p] = "idle"]
    /\ req' = [req EXCEPT ![p] = None]
    /\ file_id' = [file_id EXCEPT ![p] = None]
    /\ stored_message' = [stored_message EXCEPT ![p] = None]
    /\ file_info' = [file_info EXCEPT ![p] = None]
    /\ replies' = [replies EXCEPT ![p] = {}]
    /\ result' = [result EXCEPT ![p] = FALSE]
    /\ calls' = [calls EXCEPT ![p] = {}]
    /\ insert_log' = [insert_log EXCEPT ![p] = << >>]
    /\ fault' = [fault EXCEPT ![p] = FALSE]
    /\ UNCHANGED << files, user_sessions, channel, ghosts >>

Next ==
    \/ \E p \in Procs, u \in Users, f \in FileObjs, now \in ClockReadings,
          r \in RandomParts : UploadStart(p, u, f, now, r)
    \/ \E p \in Procs, sent \in BOOLEAN : UploadStore(p, sent)
    \/ \E p \in Procs, engine_ok \in BOOLEAN : UploadSave(p, engine_ok)
    \/ \E p \in Procs, drive \in DriveOutcomes, ai \in SideOutcomes,
          edited, forwarded \in BOOLEAN :
          UploadFinish(p, drive, ai, edited, forwarded)
    \/ \E p \in Procs, u \in Users, arg \in FileIds \cup {UnknownId, None},
          engine_ok \in BOOLEAN : Download(p, u, arg, engine_ok)
    \/ \E p \in Procs, delivered \in BOOLEAN : DownloadForward(p, delivered)
    \/ \E p \in Procs, u \in Users, url_given \in BOOLEAN,
          outcome \in SideOutcomes, replied \in BOOLEAN :
          Short(p, u, url_given, outcome, replied)
    \/ \E p \in Procs, fid \in FileIds, engine_ok \in BOOLEAN :
          Retire(p, fid, engine_ok)
    \/ \E p \in Procs, engine_ok \in BOOLEAN : RetireDelete(p, engine_ok)
    \/ \E p \in Procs : Return(p)

Spec == Init /\ [][Next]_vars

--------------------------------------------------------------------------
(* storage/database.py called directly: every method runs on a connection   *)
(* of its own and the engine lets one writer in at a time, so a call is one *)
(* step between the committed states of the tables.                         *)

\* The engine serialises the calls: one caller stands for all of them.
StoreCallers == {"p1"}

\* The file objects that pass the handler's size check and reach the store.
StoreFiles == { f \in FileObjs : ~FileTooLarge(f.file_size) }

\* DatabaseManager.insert_file(file_id, ..., user_id) called by p.
InsertFile(p, fid, f, user_id, engine_ok) ==
    /\ pc[p] = "idle"
    /\ Quiet(p)
    /\ LET r == insert_file(files, user_sessions, fid, f.file_name,
                            f.file_size, f.kind, Len(files) + 1,
                            STORAGE_CHANNEL_ID, user_id, engine_ok)
       IN  /\ files' = r.files
           /\ user_sessions' = r.sessions
           /\ insert_log' = [insert_log EXCEPT ![p] = << r.outcome >>]
    /\ req' = [req EXCEPT ![p] =
                  [op |-> "insert_file", user |-> user_id, file |-> f]]
    /\ file_id' = [file_id EXCEPT ![p] = fid]
    /\ fault' = [fault EXCEPT ![p] = ~engine_ok]
    /\ pc' = [pc EXCEPT ![p] = "done"]
    /\ UNCHANGED << channel, stored_message, file_info, replies, result,
                    calls, ghosts >>

\* DatabaseManager.update_download_count(file_id, user_id) called by p.
UpdateDownloadCount(p, fid, user_id, engine_ok, stats_fault) ==
    /\ pc[p] = "idle"
    /\ Quiet(p)
    /\ \A i \in DOMAIN files :
          files[i].file_id = fid => files[i].download_count < MaxDownloads
    /\ Truthy(user_id) /\ user_sessions[user_id] # NoSession
          => user_sessions[user_id].total_downloads < MaxDownloads
    /\ LET r == update_download_count(files, user_sessions, fid, user_id,
                                      engine_ok, stats_fault)
       IN  /\ files' = r.files
           /\ user_sessions' = r.sessions
    /\ req' = [req EXCEPT ![p] =
                  [op |-> "update_download_count", user |-> user_id]]
    /\ file_id' = [file_id EXCEPT ![p] = fid]
    /\ fault' = [fault EXCEPT ![p] = ~engine_ok \/ stats_fault # "none"]
    /\ pc' = [pc EXCEPT ![p] = "done"]
    /\ UNCHANGED << channel, stored_message, file_info, replies, result,
                    calls, insert_log, ghosts >>

\* DatabaseManager.delete_file(file_id) called by p; result is its return.
DeleteFile(p, fid, engine_ok) ==
    /\ pc[p] = "idle"
    /\ Quiet(p)
    /\ LET r == DatabaseManager_delete_file(files, fid, engine_ok)
       IN  /\ files' = r.files
           /\ result' = [result EXCEPT ![p] = r.ret]
    /\ req' = [req EXCEPT ![p] = [op |-> "delete_file"]]
    /\ file_id' = [file_id EXCEPT ![p] = fid]
    /\ fault' = [fault EXCEPT ![p] = ~engine_ok]
    /\ pc' = [pc EXCEPT ![p] = "done"]
    /\ UNCHANGED << user_sessions, channel, stored_message, file_info,
                    replies, calls, insert_log, ghosts >>

StoreNext ==
    \/ \E p \in StoreCallers, fid \in FileIds, f \in StoreFiles,
          user_id \in Users \cup {None}, engine_ok \in BOOLEAN :
          InsertFile(p, fid, f, user_id, engine_ok)
    \/ \E p \in StoreCallers, fid \in FileIds \cup {UnknownId},
          user_id \in Users \cup {None}, engine_ok \in BOOLEAN,
          stats_fault \in StatsFaults :
          UpdateDownloadCount(p, fid, user_id, engine_ok, stats_fault)
    \/ \E p \in StoreCallers, fid \in FileIds \cup {UnknownId},
          engine_ok \in BOOLEAN : DeleteFile(p, fid, engine_ok)
    \/ \E p \in StoreCallers : Return(p)

StoreSpec == Init /\ [][StoreNext]_vars

--------------------------------------------------------------------------
(* bot/handlers.py, lines 75-91 step by step: process_file_upload awaits    *)
(* upload_file and analyze_file one after the other and goes on to the      *)
(* success message when they have returned.  Neither await is bounded by a  *)
(* timeout.                                                                 *)

\* The handler whose progress is followed.
Uploaders == {"p1"}

\* Lines 78-89: the handler has called a configured side service and waits
\* for it to return.
SideCall(p) ==
    /\ pc[p] = "side"
    /\ pc' = [pc EXCEPT ![p] = "await_side"]
    /\ UNCHANGED << files, user_sessions, channel, req, locals, replies,
                    result, calls, insert_log, fault, ghosts >>

\* Lines 80-123 after the side service that was called has returned (with
\* a value, with nothing, or by raising): the rest of the handler.
SideReturn(p, drive, ai, edited, forwarded) ==
    /\ pc[p] = "await_side"
    /\ drive # "unconfigured"
          \/ (Analysed(req[p].file.kind) /\ ai # "unconfigured")
    /\ LET kind == req[p].file.kind
           msg  == success_message(google_drive_link(drive),
                                   ai_analysis(kind, ai))
       IN  /\ calls' = [calls EXCEPT ![p] =
                 @ \cup SideCalls(kind, drive, ai, edited, forwarded)]
           /\ replies' = [replies EXCEPT ![p] =
                 IF ~edited THEN @ \cup {"Upload Failed"}
                 ELSE IF ~forwarded THEN msg \cup {"Upload Failed"}
                 ELSE msg]
    /\ pc' = [pc EXCEPT ![p] = "done"]
    /\ UNCHANGED << files, user_sessions, channel, req, locals, result,
                    insert_log, fault, ghosts >>

\* Lines 75-123 when no side service is configured: nothing is waited for.
FinishUnconfigured(p, edited, forwarded) ==
    UploadFinish(p, "unconfigured", "unconfigured", edited, forwarded)

UploadNext ==
    \/ \E p \in Uploaders, u \in Users, f \in FileObjs,
          now \in ClockReadings, r \in RandomParts :
          UploadStart(p, u, f, now, r)
    \/ \E p \in Uploaders, sent \in BOOLEAN : UploadStore(p, sent)
    \/ \E p \in Uploaders, engine_ok \in BOOLEAN : UploadSave(p, engine_ok)
    \/ \E p \in Uploaders : SideCall(p)
    \/ \E p \in Uploaders, drive \in DriveOutcomes, ai \in SideOutcomes,
          edited, forwarded \in BOOLEAN :
          SideReturn(p, drive, ai, edited, forwarded)
    \/ \E p \in Uploaders, edited, forwarded \in BOOLEAN :
          FinishUnconfigured(p, edited, forwarded)
    \/ \E p \in Uploaders : Return(p)

\* The event loop runs a handler that can go on; the storage channel and
\* the store answer or fail within the client's timeouts.  Nothing makes a
\* side service return.
UploadFairness ==
    /\ WF_vars(\E p \in Uploaders, sent \in BOOLEAN : UploadStore(p, sent))
    /\ WF_vars(\E p \in Uploaders, engine_ok \in BOOLEAN :
                  UploadSave(p, engine_ok))
    /\ WF_vars(\E p \in Uploaders, edited, forwarded \in BOOLEAN :
                  FinishUnconfigured(p, edited, forwarded))
    /\ WF_vars(\E p \in Uploaders : Return(p))

UploadSpec == Init /\ [][UploadNext]_vars /\ UploadFairness

--------------------------------------------------------------------------
(* main.py: the application it assembles.  The handlers it registers are    *)
(* the functions main.py defines itself (lines 23-51); bot/commands.py and  *)
(* bot/handlers.py are not imported.                                        *)

\* The updates the webhook receives: file messages and commands.
Inbound ==
    { [op |-> "upload", user |-> u, file |-> f, arg |-> None] :
          u \in Users, f \in FileObjs }
    \cup { [op |-> "download", user |-> u, file |-> None, arg |-> a] :
              u \in Users, a \in FileIds \cup {UnknownId} }
    \cup { [op |-> c, user |-> u, file |-> None, arg |-> None] :
              u \in Users, c \in {"start", "help", "upload_command",
                                  "short", "ai"} }

\* What the handler main.py registered for the update replies (all a
\* handler of main.py does).
main_handler(update) ==
    CASE update.op = "upload" /\ update.file.kind = "document" ->
            "Document received."
      [] update.op = "upload" /\ update.file.kind = "photo" ->
            "Photo received."
      [] update.op = "upload" /\ update.file.kind = "video" ->
            "Video received."
      [] update.op = "upload" /\ update.file.kind = "audio" ->
            "Audio received."
      [] update.op = "download" -> "Download functionality goes here."
      [] update.op = "start" -> "Hello! I am your bot."
      [] update.op = "help" -> "Help message goes here."
      [] update.op = "upload_command" -> "Upload functionality goes here."
      [] update.op = "short" -> "URL shortening functionality goes here."
      [] update.op = "ai" -> "AI chat functionality goes here."

\* webhook, lines 67-77: application.process_update runs the registered
\* handler, which replies and returns.
Webhook(p, update) ==
    /\ pc[p] = "idle"
    /\ req' = [req EXCEPT ![p] = update]
    /\ file_id' = [file_id EXCEPT ![p] = update.arg]
    /\ replies' = [replies EXCEPT ![p] = {main_handler(update)}]
    /\ pc' = [pc EXCEPT ![p] = "done"]
    /\ UNCHANGED << files, user_sessions, channel, stored_message, file_info,
                    result, calls, insert_log, fault, ghosts >>

MainNext ==
    \/ \E p \in Procs, update \in Inbound : Webhook(p, update)
    \/ \E p \in Procs : Return(p)

MainSpec == Init /\ [][MainNext]_vars

--------------------------------------------------------------------------
(* The claims *)

\* The handler of p has returned from an update of kind op.
Done(p, op) == pc[p] = "done" /\ req[p].op = op

\* Some row of table files, deleted or not, bears fid.
HasRow(fid) == \E i \in DOMAIN files : files[i].file_id = fid

\* The registrations that completed under fid.
RegisteredAs(fid) == { g \in registered : g.file_id = fid }

RECURSIVE SumSizes(_)
SumSizes(S) ==
    IF S = {} THEN 0
    ELSE LET g == CHOOSE x \in S : TRUE
         IN  g.file_size + SumSizes(S \ {g})

\* A record as a lookup returns it carries what registration g registered.
SameFile(r, g) ==
    /\ r # None
    /\ r.file_id = g.file_id
    /\ r.filename = g.filename
    /\ r.file_size = g.file_size
    /\ r.file_type = g.file_type

\* C1: every completed registration's file_id, unless retired since, is
\* looked up (get_file_info, with the store answering) to a record with the
\* registered filename, file_size and file_type; and so is every record a
\* /download has looked up.
C1_RoundTrip ==
    /\ \A g \in registered :
          g.file_id \notin retired
              => SameFile(get_file_info(files, g.file_id, TRUE), g)
    /\ \A p \in Procs :
          pc[p] # "idle" /\ req[p].op = "download" /\ file_info[p] # None
              => \E g \in registered : SameFile(file_info[p], g)

\* C1 witness: a /download of a registered file_id has re-delivered it.
C1_Witness ==
    \E p \in Procs :
        /\ Done(p, "download")
        /\ "File Retrieved" \in replies[p]
        /\ RegisteredAs(file_id[p]) # {}

\* C2 (as claimed): every user with completed registrations has a persisted
\* UserSession whose total_uploads is their number and whose storage_used is
\* the sum of their sizes, and a record just registered has download_count 0.
C2_UploadAccounting ==
    /\ \A u \in Users :
          LET mine == { g \in registered : g.user = u }
          IN  mine # {} =>
                /\ user_sessions[u] # NoSession
                /\ user_sessions[u].total_uploads = Cardinality(mine)
                /\ user_sessions[u].storage_used = SumSizes(mine)
    /\ \A i \in DOMAIN files : files[i].download_count = 0

\* C3 (as claimed): a /download that has confirmed re-delivery has raised the
\* record's download_count above the value its lookup read, and the acting
\* user's total_downloads counts it.
C3_DownloadCounted ==
    \A p \in Procs :
        Done(p, "download") /\ "File Retrieved" \in replies[p] =>
            /\ files[file_info[p].id].download_count
                   > file_info[p].download_count
            /\ user_sessions[req[p].user] # NoSession
            /\ user_sessions[req[p].user].total_downloads >= 1

\* C4 (as claimed): the step of a /download that follows the lookup either
\* confirms re-delivery and then adds one to the record's download_count, or
\* reports the failure and leaves both tables as they were.
C4_IncrementAfterDelivery ==
    [][\A p \in Procs :
          pc[p] = "forward" /\ pc'[p] = "done" =>
              IF "File Retrieved" \in replies'[p]
              THEN files'[file_info[p].id].download_count
                       = files[file_info[p].id].download_count + 1
              ELSE /\ "Download Failed" \in replies'[p]
                   /\ files' = files
                   /\ user_sessions' = user_sessions]_vars

\* C5: with the store answering, FileManager.delete_file returns True for a
\* registered file_id not yet retired, returns False when called after a call
\* on that file_id has returned True, and a retired file_id looks up to
\* nothing.
C5_RetireTwice ==
    /\ \A p \in Procs :
          Done(p, "retire") /\ ~fault[p] =>
              /\ req[p].existing => result[p] = TRUE
              /\ req[p].after_retire => result[p] = FALSE
    /\ \A fid \in retired : get_file_info(files, fid, TRUE) = None

\* C5 witness: a second FileManager.delete_file on a retired file_id has
\* returned.
C5_Witness ==
    \E p \in Procs :
        /\ Done(p, "retire")
        /\ ~fault[p]
        /\ req[p].after_retire
        /\ file_id[p] \in retired

\* C6: no two rows of table files, deleted or not, bear the same file_id, and
\* no file_id stands for two registrations.
C6_UniqueFileId ==
    /\ \A i, j \in DOMAIN files :
          files[i].file_id = files[j].file_id => i = j
    /\ \A g, h \in registered : g.file_id = h.file_id => g = h

\* C6 witness: two uploads in flight drew the same file_id; one is
\* registered, the insert of the other was refused.
C6_Witness ==
    \E p, q \in Procs :
        /\ p # q
        /\ pc[p] = "side"
        /\ Done(q, "upload")
        /\ file_id[p] = file_id[q]
        /\ insert_log[q] = << "IntegrityError" >>

\* C7 (as claimed): an upload whose insert collided once is not reported as
\* failed.
C7_CollisionRetried ==
    \A p \in Procs :
        Done(p, "upload") /\ insert_log[p] = << "IntegrityError" >>
            => "Upload Failed" \notin replies[p]

\* C8: an upload of more than MAX_FILE_SIZE is answered "File Too Large" and
\* has, for it, no identifier, no channel post and no store call; an upload
\* of at most MAX_FILE_SIZE is never answered "File Too Large".
C8_OversizeRejected ==
    \A p \in Procs :
        pc[p] # "idle" /\ req[p].op = "upload" =>
            IF req[p].file.file_size > MAX_FILE_SIZE
            THEN /\ pc[p] = "done"
                 /\ replies[p] = {"File Too Large"}
                 /\ file_id[p] = None
                 /\ stored_message[p] = None
                 /\ calls[p] = {}
                 /\ insert_log[p] = << >>
            ELSE /\ "File Too Large" \notin replies[p]
                 /\ "generate_file_id" \in calls[p]

\* C8 witness: an oversized upload has been rejected while the tables hold a
\* registration.
C8_Witness ==
    \E p \in Procs :
        /\ Done(p, "upload")
        /\ req[p].file.file_size > MAX_FILE_SIZE
        /\ replies[p] = {"File Too Large"}
        /\ files # << >>

\* An upload whose post to the storage channel raised.
RelayFailed(p) == Done(p, "upload") /\ "RelayUnavailable" \in calls[p]

\* C9 (as claimed): after an upload whose channel post raised, the failure
\* is reported, the upload made no store call and no row bears the generated
\* file_id.
C9_RelayFailureNoRow ==
    \A p \in Procs :
        RelayFailed(p) =>
            /\ "Upload Failed" \in replies[p]
            /\ "insert_file" \notin calls[p]
            /\ get_file_by_id(files, file_id[p], TRUE) = None

\* C9 (amended): after an upload whose channel post raised, the failure is
\* reported, the upload made no store call, user_sessions is empty as before,
\* and the generated file_id bears a row only if a registration of some
\* other upload completed under that same file_id.
C9_RelayFailureNoWrite ==
    \A p \in Procs :
        RelayFailed(p) =>
            /\ "Upload Failed" \in replies[p]
            /\ "File Uploaded Successfully" \notin replies[p]
            /\ "insert_file" \notin calls[p]
            /\ insert_log[p] = << >>
            /\ \A u \in Users : user_sessions[u] = NoSession
            /\ HasRow(file_id[p]) => RegisteredAs(file_id[p]) # {}

\* C9 witness: the channel post of an upload raised and its file_id bears
\* no row.
C9_Witness ==
    \E p \in Procs : RelayFailed(p) /\ ~HasRow(file_id[p])

\* An upload whose post succeeded and whose insert_file raised.
PersistFailed(p) ==
    /\ Done(p, "upload")
    /\ "store_file_in_channel" \in calls[p]
    /\ insert_log[p] # << >>
    /\ insert_log[p][Len(insert_log[p])] # "ok"

\* The message the upload of p posted is in the channel as posted.
PostInPlace(p) ==
    /\ stored_message[p].message_id \in DOMAIN channel
    /\ channel[stored_message[p].message_id].caption_id = file_id[p]

\* C10 (as claimed): after an upload whose insert_file raised, the failure is
\* reported, the posted message is in place, no side service was called and
\* the generated file_id looks up to nothing.
C10_PersistFailureUnresolvable ==
    \A p \in Procs :
        PersistFailed(p) =>
            /\ "Upload Failed" \in replies[p]
            /\ PostInPlace(p)
            /\ "side_services" \notin calls[p]
            /\ get_file_by_id(files, file_id[p], TRUE) = None

\* C10 (amended): after an upload whose insert_file raised, the failure is
\* reported and success is not, the posted message is in place, no side
\* service was called, no row refers to the posted message, and the generated
\* file_id bears a row only if a registration of some other upload completed
\* under that same file_id.
C10_PersistFailureOrphan ==
    \A p \in Procs :
        PersistFailed(p) =>
            /\ "Upload Failed" \in replies[p]
            /\ "File Uploaded Successfully" \notin replies[p]
            /\ PostInPlace(p)
            /\ "side_services" \notin calls[p]
            /\ \A i \in DOMAIN files :
                  files[i].message_id # stored_message[p].message_id
            /\ HasRow(file_id[p]) => RegisteredAs(file_id[p]) # {}

\* C10 witness: the store engine failed under an insert_file whose file_id
\* was free; the post is an orphan.
C10_Witness ==
    \E p \in Procs :
        /\ PersistFailed(p)
        /\ insert_log[p] = << "OperationalError" >>
        /\ ~HasRow(file_id[p])

\* An upload that reached the side services and whose replies to the user
\* (edit_text, forward_message) went through.
Answered(p) ==
    /\ Done(p, "upload")
    /\ "side_services" \in calls[p]
    /\ "EditFailed" \notin calls[p]
    /\ "ForwardFailed" \notin calls[p]

\* The row the upload of p inserted is there with what was registered.
RecordKept(p) ==
    \E i \in DOMAIN files :
        /\ files[i].file_id = file_id[p]
        /\ files[i].filename = req[p].file.file_name
        /\ files[i].file_size = req[p].file.file_size
        /\ files[i].file_type = req[p].file.kind
        /\ files[i].message_id = stored_message[p].message_id
        /\ files[i].is_deleted => file_id[p] \in retired

\* C11 (as claimed): an upload whose Drive mirroring or AI analysis failed
\* (an exception or an empty result) keeps its record as registered, is
\* answered with the success message, and that message carries neither a
\* Drive link nor an AI analysis section for the service that failed.
C11_SideFailureOmitted ==
    \A p \in Procs :
        Answered(p) /\ calls[p] \cap {"DriveFailed", "AnalysisFailed"} # {} =>
            /\ RecordKept(p)
            /\ "File Uploaded Successfully" \in replies[p]
            /\ "Upload Failed" \notin replies[p]
            /\ "DriveFailed" \in calls[p]
                   => "Google Drive link" \notin replies[p]
            /\ "AnalysisFailed" \in calls[p]
                   => "AI Analysis" \notin replies[p]

Called(p, op) == pc[p] = "idle" /\ pc'[p] = "done" /\ req'[p].op = op

\* C13: in every step of the store, every row stays (absent is never come
\* back to) with its file_id, a row with is_deleted set keeps it set, a new
\* row starts with is_deleted clear, and an insert_file whose file_id a row
\* bears already, deleted or not, raises and changes nothing.
C13_Lifecycle ==
    [][/\ \A i \in DOMAIN files :
             /\ i \in DOMAIN files'
             /\ files'[i].file_id = files[i].file_id
             /\ files[i].is_deleted => files'[i].is_deleted
       /\ \A i \in DOMAIN files' \ DOMAIN files : ~files'[i].is_deleted
       /\ \A p \in Procs :
             Called(p, "insert_file") /\ HasRow(file_id'[p]) =>
                 /\ insert_log'[p] # << "ok" >>
                 /\ files' = files]_vars

\* C13 witness: an insert_file reusing the file_id of a deleted record has
\* been refused, and that record had its download counted after deletion
\* or before.
C13_Witness ==
    \E p \in Procs :
        /\ Done(p, "insert_file")
        /\ insert_log[p] = << "IntegrityError" >>
        /\ \E i \in DOMAIN files :
              /\ files[i].file_id = file_id[p]
              /\ files[i].is_deleted
              /\ files[i].download_count > 0

\* C14: a /download whose argument no row bears, or only a row marked
\* deleted, ends at once with "File Not Found": nothing is forwarded from the
\* storage channel, and files, user_sessions and the channel are as before.
C14_NotFoundNoEffect ==
    [][\A p \in Procs :
          /\ pc[p] = "idle"
          /\ pc'[p] # "idle"
          /\ req'[p].op = "download"
          /\ file_id'[p] # None
          /\ SelectActive(files, file_id'[p]) = {}
          => /\ pc'[p] = "done"
             /\ replies'[p] = {"File Not Found"}
             /\ "forward_message" \notin calls'[p]
             /\ files' = files
             /\ user_sessions' = user_sessions
             /\ channel' = channel]_vars

\* C14 witness: a /download of a retired file_id has been answered "File Not
\* Found" with the store answering.
C14_Witness ==
    \E p \in Procs :
        /\ Done(p, "download")
        /\ replies[p] = {"File Not Found"}
        /\ ~fault[p]
        /\ file_id[p] \in retired
        /\ \E i \in DOMAIN files :
              files[i].file_id = file_id[p] /\ files[i].is_deleted

\* Table files with the rows marked deleted taken out.
LiveFiles == SelectSeq(files, LAMBDA r : ~r.is_deleted)

\* The elements of a sequence.
Range(seq) == { seq[k] : k \in DOMAIN seq }

\* C15: for every row marked deleted, get_file_by_id on its file_id returns
\* nothing and get_user_files of no user lists it; get_file_stats and
\* get_user_files answer as they would if the rows marked deleted were not
\* in the table at all.
C15_DeletedExcluded ==
    /\ \A i \in DOMAIN files :
          files[i].is_deleted =>
              /\ get_file_by_id(files, files[i].file_id, TRUE) = None
              /\ \A u \in Users :
                    files[i] \notin Range(get_user_files(files, u, 10, 0, TRUE))
    /\ get_file_stats(files, TRUE) = get_file_stats(LiveFiles, TRUE)
    /\ get_file_stats(files, TRUE).total_files = Len(LiveFiles)
    /\ \A u \in Users :
          Range(get_user_files(files, u, 10, 0, TRUE))
              = { r \in Range(LiveFiles) : r.user_id = u }

\* C15 witness: the table holds a record of a user marked deleted next to a
\* record that is not.
C15_Witness ==
    \E i, j \in DOMAIN files :
        /\ files[i].is_deleted
        /\ files[i].user_id \in Users
        /\ ~files[j].is_deleted
        /\ files[j].user_id = files[i].user_id
        /\ get_file_stats(files, TRUE).total_files = 1

\* C16 (as claimed): with the engine answering, DatabaseManager.delete_file
\* returns True exactly when, before the call, a row bore the file_id and
\* was not marked deleted.
C16_DeleteReturn ==
    [][\A p \in Procs :
          Called(p, "delete_file") /\ ~fault'[p] =>
              (result'[p] <=> SelectActive(files, file_id'[p]) # {})]_vars

\* C17 (as claimed): an update_download_count whose file_id no row bears
\* leaves every row of files and every row of user_sessions as it was, the
\* row of the user_id passed with the call included, and creates none.
C17_UnknownIdNoOp ==
    [][\A p \in Procs :
          Called(p, "update_download_count") /\ ~HasRow(file_id'[p]) =>
              /\ files' = files
              /\ user_sessions' = user_sessions]_vars

\* C18: an unconfigured URL shortener, Drive mirror or AI analyzer returns
\* nothing without an external call; and an upload that got past the size
\* check, the channel post and the insert with the Drive mirror, the AI
\* analyzer or both unconfigured, its replies going through, is registered,
\* has its record, is answered with the success message, and has called
\* neither upload_file nor any external API of an unconfigured service.
C18_UnconfiguredDegrades ==
    /\ shorten_url("unconfigured") = [ret |-> None, external |-> FALSE]
    /\ upload_file("unconfigured") = [ret |-> None, external |-> FALSE]
    /\ \A f \in FileObjs :
          analyze_file(f.kind, "unconfigured")
              = [ret |-> None, external |-> FALSE]
    /\ \A p \in Procs :
          /\ Answered(p)
          /\ calls[p] \cap {"DriveUnconfigured", "AiUnconfigured"} # {}
          => /\ RegisteredAs(file_id[p]) # {}
             /\ RecordKept(p)
             /\ "File Uploaded Successfully" \in replies[p]
             /\ "Upload Failed" \notin replies[p]
             /\ "DriveUnconfigured" \in calls[p] =>
                    /\ calls[p] \cap {"upload_file", "DriveApi"} = {}
                    /\ "Google Drive link" \notin replies[p]
             /\ "AiUnconfigured" \in calls[p] =>
                    /\ "GeminiApi" \notin calls[p]
                    /\ "AI Analysis" \notin replies[p]

\* C18 witness: the upload of a document with neither Drive nor Gemini
\* configured has been answered with the success message.
C18_Witness ==
    \E p \in Procs :
        /\ Answered(p)
        /\ {"DriveUnconfigured", "AiUnconfigured", "analyze_file"}
               \subseteq calls[p]
        /\ replies[p] = {"File Uploaded Successfully"}

\* A counter of a user's session row; 0 while the row is not there.
Uploads(sessions, u) ==
    IF sessions[u] = NoSession THEN 0 ELSE sessions[u].total_uploads
Downloads(sessions, u) ==
    IF sessions[u] = NoSession THEN 0 ELSE sessions[u].total_downloads
StorageUsed(sessions, u) ==
    IF sessions[u] = NoSession THEN 0 ELSE sessions[u].storage_used

\* C19 (as claimed): the committed state an insert_file with an owner leaves
\* has the new row only together with the owner's total_uploads raised by
\* one and storage_used raised by the file_size, and the committed state an
\* update_download_count with a user leaves has a raised download_count
\* only together with the user's total_downloads raised by one.
C19_TwoTableAtomic ==
    [][\A p \in Procs :
          /\ Called(p, "insert_file") /\ Truthy(req'[p].user) =>
                LET u == req'[p].user
                IN  /\ Len(files') > Len(files) =>
                           Uploads(user_sessions', u)
                               = Uploads(user_sessions, u) + 1
                    /\ Uploads(user_sessions', u) # Uploads(user_sessions, u)
                           <=> StorageUsed(user_sessions', u)
                                   = StorageUsed(user_sessions, u)
                                         + req'[p].file.file_size
          /\ Called(p, "update_download_count") /\ Truthy(req'[p].user) =>
                (files' # files =>
                    Downloads(user_sessions', req'[p].user)
                        = Downloads(user_sessions, req'[p].user) + 1)]_vars

\* C20 (as claimed): every user's persisted storage_used is the sum of
\* file_size over the rows inserted with that owner, those marked deleted
\* included, and total_uploads is their number.
C20_HistoricalUsage ==
    \A u \in Users :
        LET mine == { i \in DOMAIN files : files[i].user_id = u }
        IN  /\ StorageUsed(user_sessions, u) = SumFileSize(files, mine)
            /\ Uploads(user_sessions, u) = Cardinality(mine)

\* C21: in every step of the store every row is still there with the same
\* file_id, filename, file_size, file_type, user_id, channel_id and
\* message_id; its download_count has not gone down and a google_drive_link
\* it had is the one it has.
C21_RecordFrame ==
    [][\A i \in DOMAIN files :
          /\ i \in DOMAIN files'
          /\ files'[i].file_id = files[i].file_id
          /\ files'[i].filename = files[i].filename
          /\ files'[i].file_size = files[i].file_size
          /\ files'[i].file_type = files[i].file_type
          /\ files'[i].user_id = files[i].user_id
          /\ files'[i].channel_id = files[i].channel_id
          /\ files'[i].message_id = files[i].message_id
          /\ files'[i].id = files[i].id
          /\ files'[i].download_count >= files[i].download_count
          /\ files[i].google_drive_link # None
                => files'[i].google_drive_link = files[i].google_drive_link]_vars

\* C21 witness: a record with an owner has been downloaded MaxDownloads
\* times, the last time by a caller that is not its owner, and is marked
\* deleted.
C21_Witness ==
    \E p \in Procs, i \in DOMAIN files :
        /\ Done(p, "update_download_count")
        /\ req[p].user = None
        /\ ~fault[p]
        /\ files[i].file_id = file_id[p]
        /\ files[i].user_id \in Users
        /\ files[i].download_count = MaxDownloads
        /\ files[i].is_deleted

\* The uploads of user u under way whose insert_file has returned.
Inserted(u) ==
    { p \in Procs : /\ pc[p] \in {"side", "done"}
                    /\ req[p].op = "upload"
                    /\ req[p].user = u
                    /\ insert_log[p] = << "ok" >> }

\* The /download commands of user u that have re-delivered a file.
Delivered(u) ==
    { p \in Procs : /\ Done(p, "download")
                    /\ req[p].user = u
                    /\ "File Retrieved" \in replies[p] }

RECURSIVE SumUploadSizes(_)
SumUploadSizes(S) ==
    IF S = {} THEN 0
    ELSE LET p == CHOOSE x \in S : TRUE
         IN  req[p].file.file_size + SumUploadSizes(S \ {p})

\* C22 (as claimed): the persisted counters of a user have taken in every
\* upload and download of that user, run side by side or not: total_uploads
\* counts at least the uploads whose insert has returned and at most the
\* registrations, storage_used holds at least their sizes, and
\* total_downloads counts at least the re-deliveries made.
C22_NoLostUpdate ==
    \A u \in Users :
        /\ Uploads(user_sessions, u) >= Cardinality(Inserted(u))
        /\ Uploads(user_sessions, u)
               <= Cardinality({ g \in registered : g.user = u })
        /\ StorageUsed(user_sessions, u) >= SumUploadSizes(Inserted(u))
        /\ Downloads(user_sessions, u) >= Cardinality(Delivered(u))

\* C23 (as claimed): an upload whose record is persisted gets its answer,
\* whether or not a side service it has called ever returns.
C23_ResponseNotDelayed ==
    \A p \in Uploaders :
        (pc[p] \in {"side", "await_side"}) ~> (pc[p] = "done")

\* C24 (as claimed): the filename of the row an upload has inserted is what
\* clean_filename makes of the declared file name: free of the characters
\* < > : " / \ | ? *, without a dot or space at either end, at most 255
\* characters long and not empty.
C24_FilenameSanitized ==
    \A p \in Procs :
        pc[p] \in {"side", "done"} /\ req[p].op = "upload"
            /\ insert_log[p] = << "ok" >> =>
            \A i \in DOMAIN files :
                files[i].file_id = file_id[p] =>
                    LET cs == Characters(files[i].filename)
                    IN  /\ cs = clean_filename(Characters(req[p].file.file_name))
                        /\ \A k \in DOMAIN cs : cs[k] \notin InvalidCharacters
                        /\ cs # << >>
                        /\ Len(cs) <= MaxNameLength
                        /\ cs[1] \notin {".", " "}
                        /\ cs[Len(cs)] \notin {".", " "}

\* C25 (as claimed): for a record in the store, what a store method hands
\* its caller when the engine fails differs from what it hands back when the engine answers: for
\* get_file_by_id from "no such file", for delete_file from "nothing to
\* delete", for update_download_count from a completed increment.
C25_StoreFailureSurfaced ==
    \A i \in DOMAIN files, u \in Users \cup {None} :
        ~files[i].is_deleted =>
            LET fid == files[i].file_id
            IN  /\ get_file_by_id(files, fid, FALSE)
                       # get_file_by_id(files, UnknownId, TRUE)
                /\ DatabaseManager_delete_file(files, fid, FALSE).ret
                       # DatabaseManager_delete_file(files, UnknownId, TRUE).ret
                /\ update_download_count(files, user_sessions, fid, u, FALSE,
                                         "none").outcome
                       # update_download_count(files, user_sessions, fid, u,
                                               TRUE, "none").outcome

\* C26 (as claimed): in the application main.py assembles, the handling of
\* a file message that has returned has issued a file_id, posted the file
\* and made the insert (or turned the file away as too large), and the
\* handling of a /download <id> that has returned has made the lookup.
C26_EventsReachRegistry ==
    \A p \in Procs :
        /\ Done(p, "upload") =>
              \/ "File Too Large" \in replies[p]
              \/ "generate_file_id" \in calls[p]
        /\ Done(p, "download") /\ file_id[p] # None =>
              "get_file_info" \in calls[p]

\* C27 (as claimed): an upload that has told the user "Upload Failed" has
\* left no record that its file_id looks up to, and an upload whose
\* insert_file has returned normally never tells the user "Upload Failed".
C27_FailedMeansNoRecord ==
    \A p \in Procs :
        Done(p, "upload") /\ "Upload Failed" \in replies[p] =>
            /\ get_file_by_id(files, file_id[p], TRUE) = None
            /\ insert_log[p] # << "ok" >>

\* C28 (as claimed): when FileManager.delete_file has returned True, the
\* record of its file_id is marked deleted.
C28_TrueOnlyIfDeleted ==
    \A p \in Procs :
        Done(p, "retire") /\ result[p] = TRUE =>
            \E i \in DOMAIN files :
                files[i].file_id = file_id[p] /\ files[i].is_deleted

\* C29 (as claimed): of the FileManager.delete_file calls on one file_id
\* that run side by side, one returns True: a call returns True, the store
\* answering, only when no call on that file_id has returned True before.
C29_OneWinner ==
    [][\A p \in Procs :
          pc[p] = "delete" /\ pc'[p] = "done" /\ ~fault'[p] =>
              (result'[p] = TRUE <=> file_id[p] \notin retired)]_vars

\* C30 (as claimed): a /short command is answered "URL Shortened
\* Successfully" only when shorten_url returned a short URL.
C30_ShortenedOnlyWithUrl ==
    \A p \in Procs :
        Done(p, "short") /\ "URL Shortened Successfully" \in replies[p] =>
            "NoShortUrl" \notin calls[p]

====
